---- MODULE Spec2Model ----
(***************************************************************************)
(* The C-linkage boundary of glslang-sys (src/glslang-sys/src/glue.cpp):   *)
(* free functions over opaque handles that forward to the TShader          *)
(* (CompilationUnit) and TProgram (LinkUnit) objects of the wrapped       *)
(* compiler.  The functions of glue.cpp are the actions; the objects they  *)
(* forward to (ShaderLang.h, not part of the source tree at hand) are      *)
(* modelled from the specification of the boundary and are the operators   *)
(* whose names start with TShader__ and TProgram__.                        *)
(***************************************************************************)
EXTENDS Integers, Sequences, FiniteSets, TLC

(***************************************************************************)
(* Bounds of the model.                                                    *)
(***************************************************************************)
MaxShaders == 2
MaxPrograms == 1
MaxConfigured == 1
MaxSourceUnits == 1

ShaderIds == 1..MaxShaders
ProgramIds == 1..MaxPrograms

(***************************************************************************)
(* Inputs of the caller.                                                   *)
(***************************************************************************)
\* EShLanguage values handed to TShader_create
Stages == {"EShLangVertex", "EShLangFragment"}

\* The caller's source arrays (const char *const *): a null pointer is 0, a
\* non-null pointer is the index of the array it points to.  A fragment is a
\* sequence of constructs:
\*   "g" a construct every configuration accepts,
\*   "x" a syntax error,
\*   "h" a construct of the HLSL dialect (accepted when setEnvInput chose it),
\*   "n" a construct of the version the source itself declares (rejected when
\*       the default version and profile are forced and are too old),
\*   "u" a uniform declaration (accepted everywhere, shows in reflection).
StringArrays ==
    << << <<"g", "u">>, <<"g">> >>,
       << <<"g">>, <<"x">> >>,
       << <<"h">>, <<"n">> >> >>

\* The caller's length arrays (const int *)
LengthArrays == << <<1, 0>> >>

\* The caller's name arrays (const char *const *)
NameArrays == << <<"a.glsl", "b.glsl">> >>

StringPtrs == 1..Len(StringArrays)
LengthPtrs == 1..Len(LengthArrays)
NamePtrs == 1..Len(NameArrays)
Counts == 1..2

\* Arguments of TShader_parse
Versions == {100, 450}
Profiles == {"ENoProfile", "ECoreProfile", "EEsProfile"}
Messages == {"EShMsgDefault", "EShMsgDebugInfo"}
\* Arguments of TProgram_buildReflection (a bitmask, here the set of its bits)
ReflectionOptions == {{"uniforms"}, {"uniforms", "blocks", "attributes"}}

\* The configuration setters of glue.cpp, one configuration field each.
Setters ==
    { "setPreamble", "setEntryPoint", "setSourceEntryPoint", "setUniqueId",
      "setShiftBinding", "setShiftBindingForSet", "setAutoMapBindings",
      "setAutoMapLocations", "addUniformLocationOverride",
      "setUniformLocationBase", "setInvertY", "setNoStorageFormat",
      "setNanMinMaxClamp", "setTextureSamplerTransformMode",
      "addBlockStorageOverride", "setGlobalUniformBlockName",
      "setAtomicCounterBlockName", "setGlobalUniformSet",
      "setGlobalUniformBinding", "setAtomicCounterBlockSet",
      "setAtomicCounterBlockBinding", "setEnvInput", "setEnvClient",
      "setEnvTarget", "setEnvInputVulkanRulesRelaxed" }

\* A configuration field holds 0 (the compiler's default), 1 (a value the
\* compiler accepts) or 2 (a value the compiler rejects when it parses).
\* Only the preamble and the three environment axes have rejected values.
Rejectable == {"setPreamble", "setEnvInput", "setEnvClient", "setEnvTarget"}
SetterArgs(f) == IF f \in Rejectable THEN {1, 2} ELSE {1}

VARIABLES
    shader,     \* the TShader objects, by handle
    program,    \* the TProgram objects, by handle
    handles,    \* the TIntermediate handles the caller holds (by owning unit)
    last,       \* the last call of the boundary: its name, self, and result
    crashed     \* a call had undefined behaviour and took the process down

vars == <<shader, program, handles, last, crashed>>

DefaultConfig == [f \in Setters |-> 0]

\* A handle no TShader_create has returned yet
FreeShader ==
    [ status |-> "free", stage |-> "", strings |-> 0, numStrings |-> 0,
      lengths |-> 0, stringNames |-> 0, config |-> DefaultConfig,
      parsed |-> "none", infoLog |-> "", debugLog |-> "",
      ir |-> [state |-> "none", uniforms |-> {}] ]

\* No reflection has been built
NoReflection ==
    [built |-> FALSE, uniforms |-> <<>>, blocks |-> <<>>, attributes |-> <<>>]

\* A handle no TProgram_create has returned yet
FreeProgram ==
    [ status |-> "free", shaders |-> {}, linked |-> FALSE, infoLog |-> "",
      uniforms |-> {}, stages |-> {}, reflection |-> NoReflection ]

\* The result record of a call: b for a bool, i for an int or a handle, s for
\* a string; the fields a call does not return stay at these values
\* (n is the second out-parameter of TShader_getStrings).  args are the
\* arguments of a "set source" or a parse call.
NoArgs ==
    [ s |-> 0, l |-> 0, names |-> 0, n |-> 0, defaultVersion |-> 0,
      defaultProfile |-> "", force |-> FALSE, forwardCompatible |-> FALSE,
      messages |-> "" ]

Call(op, self) ==
    [ op |-> op, self |-> self, b |-> FALSE, i |-> 0, n |-> 0, s |-> "",
      args |-> NoArgs ]

Live(u) == shader[u].status = "live"
LiveUnits == {u \in ShaderIds : Live(u)}
LiveP(p) == program[p].status = "live"


(***************************************************************************)
(* TShader, the object behind a CompilationUnit handle.                    *)
(***************************************************************************)
\* TShader(lang): a fresh unit, every option at the compiler's default, an
\* intermediate representation that is allocated and still empty
TShader__new(lang) ==
    [FreeShader EXCEPT !.status = "live", !.stage = lang,
                       !.ir.state = "empty"]

\* ~TShader: the unit and the intermediate representation it owns are gone
TShader__delete(sh) == [FreeShader EXCEPT !.status = "dead"]

\* The three forms of "set source": the last call wins
TShader__setStrings(sh, s, n) ==
    [sh EXCEPT !.strings = s, !.numStrings = n, !.lengths = 0,
               !.stringNames = 0]

TShader__setStringsWithLengths(sh, s, l, n) ==
    [sh EXCEPT !.strings = s, !.numStrings = n, !.lengths = l,
               !.stringNames = 0]

TShader__setStringsWithLengthsAndNames(sh, s, l, names, n) ==
    [sh EXCEPT !.strings = s, !.numStrings = n, !.lengths = l,
               !.stringNames = names]

\* A configuration setter writes its field and nothing else
TShader__set(sh, f, v) == [sh EXCEPT !.config[f] = v]

Min(a, b) == IF a < b THEN a ELSE b

\* Fragment i of the source as the parser reads it: cut to its explicit length
\* when lengths were given
Fragment(sh, i) ==
    LET frag == StringArrays[sh.strings][i]
    IN  IF sh.lengths = 0 THEN frag
        ELSE SubSeq(frag, 1, Min(LengthArrays[sh.lengths][i], Len(frag)))

\* Does the compiler accept construct c under this configuration and these
\* parse arguments
ConstructOk(c, config, defaultVersion, defaultProfile, force) ==
    CASE c = "x" -> FALSE
      [] c = "h" -> config["setEnvInput"] = 1
      [] c = "n" -> \/ ~force
                    \/ defaultVersion >= 450 /\ defaultProfile # "EEsProfile"
      [] OTHER -> TRUE

FragmentOk(sh, i, defaultVersion, defaultProfile, force) ==
    \A k \in 1..Len(Fragment(sh, i)) :
        ConstructOk(Fragment(sh, i)[k], sh.config, defaultVersion,
                    defaultProfile, force)

\* The fragments the parser rejects
BadFragments(sh, defaultVersion, defaultProfile, force) ==
    {i \in 1..sh.numStrings :
        ~FragmentOk(sh, i, defaultVersion, defaultProfile, force)}

ConfigOk(config) == \A f \in Rejectable : config[f] # 2

FirstOf(S) == CHOOSE i \in S : \A j \in S : i <= j

\* How a diagnostic names fragment i: by its logical name when names were
\* given, by its index otherwise
IndexNames == <<"0", "1">>
FragmentName(sh, i) ==
    IF sh.stringNames = 0 THEN IndexNames[i]
    ELSE NameArrays[sh.stringNames][i]

\* Is the current source valid under the current configuration
SourceValid(sh, defaultVersion, defaultProfile, force) ==
    /\ ConfigOk(sh.config)
    /\ BadFragments(sh, defaultVersion, defaultProfile, force) = {}

\* The uniforms the source declares
Declared(sh) ==
    {c \in {"u"} : \E i \in 1..sh.numStrings :
        \E k \in 1..Len(Fragment(sh, i)) : Fragment(sh, i)[k] = c}

\* TShader::parse, six arguments (the resource limits are one fixed table)
TShader__parse(sh, defaultVersion, defaultProfile, force, forwardCompatible, messages) ==
    LET bad == BadFragments(sh, defaultVersion, defaultProfile, force)
        ok == SourceValid(sh, defaultVersion, defaultProfile, force)
    IN  [sh EXCEPT
            !.parsed = IF ok THEN "ok" ELSE "fail",
            !.infoLog = IF ok THEN ""
                        ELSE IF ~ConfigOk(sh.config) THEN "ERROR: environment"
                        ELSE "ERROR: " \o FragmentName(sh, FirstOf(bad)),
            !.debugLog = IF messages = "EShMsgDebugInfo" THEN "DEBUG" ELSE "",
            !.ir = IF ok THEN [state |-> "populated",
                               uniforms |-> Declared(sh)]
                   ELSE @]

\* TShader::parse, four arguments: the profile is the compiler's default and
\* nothing is forced
TShader__parse4(sh, defaultVersion, forwardCompatible, messages) ==
    TShader__parse(sh, defaultVersion, "ENoProfile", FALSE, forwardCompatible,
                   messages)

(***************************************************************************)
(* The CompilationUnit functions of glue.cpp.                              *)
(***************************************************************************)
\* The handle operator new returns: one no live or dead object has
NewShader == CHOOSE u \in ShaderIds :
    /\ shader[u].status = "free"
    /\ \A v \in ShaderIds : shader[v].status = "free" => u <= v

TShader_create(lang) ==
    /\ ~crashed
    /\ \E u \in ShaderIds : shader[u].status = "free"
    /\ shader' = [shader EXCEPT ![NewShader] = TShader__new(lang)]
    /\ last' = [Call("TShader_create", NewShader) EXCEPT !.i = NewShader]
    /\ UNCHANGED <<program, handles, crashed>>

TShader_setStrings(u, s, n) ==
    /\ ~crashed /\ Live(u)
    /\ shader' = [shader EXCEPT ![u] = TShader__setStrings(@, s, n)]
    /\ last' = [Call("TShader_setStrings", u) EXCEPT
                    !.args.s = s, !.args.n = n]
    /\ UNCHANGED <<program, handles, crashed>>

\* A slip of the pen: the lengths are dropped on the way to the compiler
TShader_setStringsWithLengths_NoLengths(u, s, l, n) ==
    /\ ~crashed /\ Live(u)
    /\ shader' = [shader EXCEPT ![u] = TShader__setStrings(@, s, n)]
    /\ last' = [Call("TShader_setStringsWithLengths", u) EXCEPT
                    !.args.s = s, !.args.l = l, !.args.n = n]
    /\ UNCHANGED <<program, handles, crashed>>

TShader_setStringsWithLengths(u, s, l, n) ==
    /\ ~crashed /\ Live(u)
    /\ shader' = [shader EXCEPT
                    ![u] = TShader__setStringsWithLengths(@, s, l, n)]
    /\ last' = [Call("TShader_setStringsWithLengths", u) EXCEPT
                    !.args.s = s, !.args.l = l, !.args.n = n]
    /\ UNCHANGED <<program, handles, crashed>>

TShader_setStringsWithLengthsAndNames(u, s, l, names, n) ==
    /\ ~crashed /\ Live(u)
    /\ shader' = [shader EXCEPT
            ![u] = TShader__setStringsWithLengthsAndNames(@, s, l, names, n)]
    /\ last' = [Call("TShader_setStringsWithLengthsAndNames", u) EXCEPT
                    !.args.s = s, !.args.l = l, !.args.names = names,
                    !.args.n = n]
    /\ UNCHANGED <<program, handles, crashed>>

\* Number of configuration fields, of all units, that are off their default
ConfiguredFields ==
    Cardinality({c \in ShaderIds \X Setters : shader[c[1]].config[c[2]] # 0})

\* What every configuration setter of glue.cpp does: forward to the setter
\* named f with the value v
TShader_set(u, f, v) ==
    /\ ~crashed /\ Live(u)
    /\ shader' = [shader EXCEPT ![u] = TShader__set(@, f, v)]
    /\ last' = Call("TShader_" \o f, u)
    /\ UNCHANGED <<program, handles, crashed>>

TShader_setPreamble(u, v) == TShader_set(u, "setPreamble", v)
TShader_setEntryPoint(u, v) == TShader_set(u, "setEntryPoint", v)
TShader_setSourceEntryPoint(u, v) == TShader_set(u, "setSourceEntryPoint", v)
TShader_setUniqueId(u, v) == TShader_set(u, "setUniqueId", v)
TShader_setShiftBinding(u, v) == TShader_set(u, "setShiftBinding", v)
TShader_setShiftBindingForSet(u, v) == TShader_set(u, "setShiftBindingForSet", v)
TShader_setAutoMapBindings(u, v) == TShader_set(u, "setAutoMapBindings", v)
TShader_setAutoMapLocations(u, v) == TShader_set(u, "setAutoMapLocations", v)
TShader_addUniformLocationOverride(u, v) == TShader_set(u, "addUniformLocationOverride", v)
TShader_setUniformLocationBase(u, v) == TShader_set(u, "setUniformLocationBase", v)
TShader_setInvertY(u, v) == TShader_set(u, "setInvertY", v)
TShader_setNoStorageFormat(u, v) == TShader_set(u, "setNoStorageFormat", v)
TShader_setNanMinMaxClamp(u, v) == TShader_set(u, "setNanMinMaxClamp", v)
TShader_setTextureSamplerTransformMode(u, v) == TShader_set(u, "setTextureSamplerTransformMode", v)
TShader_addBlockStorageOverride(u, v) == TShader_set(u, "addBlockStorageOverride", v)
TShader_setGlobalUniformBlockName(u, v) == TShader_set(u, "setGlobalUniformBlockName", v)
TShader_setAtomicCounterBlockName(u, v) == TShader_set(u, "setAtomicCounterBlockName", v)
TShader_setGlobalUniformSet(u, v) == TShader_set(u, "setGlobalUniformSet", v)
TShader_setGlobalUniformBinding(u, v) == TShader_set(u, "setGlobalUniformBinding", v)
TShader_setAtomicCounterBlockSet(u, v) == TShader_set(u, "setAtomicCounterBlockSet", v)
TShader_setAtomicCounterBlockBinding(u, v) == TShader_set(u, "setAtomicCounterBlockBinding", v)
TShader_setEnvInput(u, v) == TShader_set(u, "setEnvInput", v)
TShader_setEnvClient(u, v) == TShader_set(u, "setEnvClient", v)
\* A slip of the pen: the setter validates its argument at once and reports
\* through the unit's log
TShader_setEnvTarget_Eager(u, v) ==
    /\ ~crashed /\ Live(u)
    /\ shader' = [shader EXCEPT ![u] =
            IF v = 2
            THEN [TShader__set(@, "setEnvTarget", v) EXCEPT
                    !.parsed = "fail", !.infoLog = "ERROR: environment"]
            ELSE TShader__set(@, "setEnvTarget", v)]
    /\ last' = Call("TShader_setEnvTarget", u)
    /\ UNCHANGED <<program, handles, crashed>>
TShader_setEnvTarget(u, v) == TShader_set(u, "setEnvTarget", v)
TShader_setEnvInputVulkanRulesRelaxed(u) == TShader_set(u, "setEnvInputVulkanRulesRelaxed", 1)

TShader_getStrings(u) ==
    /\ ~crashed /\ Live(u)
    /\ last' = [Call("TShader_getStrings", u) EXCEPT
                    !.i = shader[u].strings, !.n = shader[u].numStrings]
    /\ UNCHANGED <<shader, program, handles, crashed>>

TShader_parse(u, defaultVersion, defaultProfile, force, forwardCompatible, messages) ==
    /\ ~crashed /\ Live(u)
    /\ shader[u].strings # 0
    /\ shader' = [shader EXCEPT ![u] =
            TShader__parse(@, defaultVersion, defaultProfile, force,
                           forwardCompatible, messages)]
    /\ last' = [Call("TShader_parse", u) EXCEPT
                    !.b = (shader'[u].parsed = "ok"),
                    !.args.defaultVersion = defaultVersion,
                    !.args.defaultProfile = defaultProfile,
                    !.args.force = force,
                    !.args.forwardCompatible = forwardCompatible,
                    !.args.messages = messages]
    /\ UNCHANGED <<program, handles, crashed>>

\* A slip of the pen: the six-argument parse is called and forwardCompatible
\* lands in the place of forceDefaultVersionAndProfile as well
TShader_parse1_Forced(u, defaultVersion, forwardCompatible, messages) ==
    /\ ~crashed /\ Live(u)
    /\ shader[u].strings # 0
    /\ shader' = [shader EXCEPT ![u] =
            TShader__parse(@, defaultVersion, "ENoProfile", forwardCompatible,
                           forwardCompatible, messages)]
    /\ last' = [Call("TShader_parse1", u) EXCEPT
                    !.b = (shader'[u].parsed = "ok"),
                    !.args.defaultVersion = defaultVersion,
                    !.args.forwardCompatible = forwardCompatible,
                    !.args.messages = messages]
    /\ UNCHANGED <<program, handles, crashed>>

TShader_parse1(u, defaultVersion, forwardCompatible, messages) ==
    /\ ~crashed /\ Live(u)
    /\ shader[u].strings # 0
    /\ shader' = [shader EXCEPT ![u] =
            TShader__parse4(@, defaultVersion, forwardCompatible, messages)]
    /\ last' = [Call("TShader_parse1", u) EXCEPT
                    !.b = (shader'[u].parsed = "ok"),
                    !.args.defaultVersion = defaultVersion,
                    !.args.forwardCompatible = forwardCompatible,
                    !.args.messages = messages]
    /\ UNCHANGED <<program, handles, crashed>>

TShader_getEnvTargetHlslFunctionality1(u) ==
    /\ ~crashed /\ Live(u)
    /\ last' = Call("TShader_getEnvTargetHlslFunctionality1", u)
    /\ UNCHANGED <<shader, program, handles, crashed>>

TShader_getEnvInputVulkanRulesRelaxed(u) ==
    /\ ~crashed /\ Live(u)
    /\ last' = [Call("TShader_getEnvInputVulkanRulesRelaxed", u) EXCEPT
                    !.b = (shader[u].config["setEnvInputVulkanRulesRelaxed"]
                            = 1)]
    /\ UNCHANGED <<shader, program, handles, crashed>>

\* A slip of the pen: the debug log is returned for the info log
TShader_getInfoLog_Debug(u) ==
    /\ ~crashed /\ Live(u)
    /\ last' = [Call("TShader_getInfoLog", u) EXCEPT !.s = shader[u].debugLog]
    /\ UNCHANGED <<shader, program, handles, crashed>>

TShader_getInfoLog(u) ==
    /\ ~crashed /\ Live(u)
    /\ last' = [Call("TShader_getInfoLog", u) EXCEPT !.s = shader[u].infoLog]
    /\ UNCHANGED <<shader, program, handles, crashed>>

TShader_getInfoDebugLog(u) ==
    /\ ~crashed /\ Live(u)
    /\ last' = [Call("TShader_getInfoDebugLog", u) EXCEPT
                    !.s = shader[u].debugLog]
    /\ UNCHANGED <<shader, program, handles, crashed>>

TShader_getStage(u) ==
    /\ ~crashed /\ Live(u)
    /\ last' = [Call("TShader_getStage", u) EXCEPT !.s = shader[u].stage]
    /\ UNCHANGED <<shader, program, handles, crashed>>

\* The handle is the address of the TIntermediate the unit owns; the caller
\* keeps it
TShader_getIntermediate(u) ==
    /\ ~crashed /\ Live(u)
    /\ handles' = handles \cup {u}
    /\ last' = [Call("TShader_getIntermediate", u) EXCEPT !.i = u]
    /\ UNCHANGED <<shader, program, crashed>>

\* A slip of the pen: the memory of the unit is released without its
\* destructor, so the intermediate representation it owns stays allocated
TShader_destroy_Leak(u) ==
    /\ ~crashed /\ Live(u)
    /\ shader' = [shader EXCEPT ![u].status = "dead"]
    /\ last' = Call("TShader_destroy", u)
    /\ UNCHANGED <<program, handles, crashed>>

TShader_destroy(u) ==
    /\ ~crashed /\ Live(u)
    /\ shader' = [shader EXCEPT ![u] = TShader__delete(@)]
    /\ last' = Call("TShader_destroy", u)
    /\ UNCHANGED <<program, handles, crashed>>


(***************************************************************************)
(* TProgram, the object behind a LinkUnit handle.                          *)
(***************************************************************************)
\* TProgram(): an empty program
TProgram__new == [FreeProgram EXCEPT !.status = "live"]

\* ~TProgram: the program object and what it owns (its logs, its linked
\* intermediates, its reflection) are gone; it owns no unit.  Which units it
\* had referred to stays on record.
TProgram__delete(pr) ==
    [FreeProgram EXCEPT !.status = "dead", !.shaders = pr.shaders]

\* addShader keeps a reference to the unit, not the unit
TProgram__addShader(pr, u) == [pr EXCEPT !.shaders = @ \cup {u}]

\* What a link can return.  With no unit there is no entry stage; with parsed
\* units the stages must be one unit each; a unit that was never parsed
\* successfully makes the result undefined; a reference to a destroyed unit is
\* a use after free.
LinkOutcomes(pr) ==
    IF pr.shaders = {} THEN {"false"}
    ELSE IF \E u \in pr.shaders : ~Live(u) THEN {"crash", "true", "false"}
    ELSE IF \E u \in pr.shaders : shader[u].ir.state # "populated"
        THEN {"true", "false"}
    ELSE IF \A u, v \in pr.shaders : shader[u].stage = shader[v].stage => u = v
        THEN {"true"}
    ELSE {"false"}

\* link with the result r: the program keeps what it linked, and a reflection
\* built over an earlier link is no longer valid
TProgram__link(pr, r, messages) ==
    LET units == {u \in pr.shaders : Live(u)}
    IN  [pr EXCEPT
            !.linked = @ \/ r,
            !.infoLog = IF r THEN "" ELSE "ERROR: Linking",
            !.uniforms = UNION {shader[u].ir.uniforms : u \in units},
            !.stages = {shader[u].stage : u \in units},
            !.reflection = NoReflection]

\* The order of the reflection tables
Names == <<"u", "Block", "position">>
Table(S) == SelectSeq(Names, LAMBDA x : x \in S)

\* buildReflection: fails before a successful link; after one it fills the
\* categories the options select
TProgram__buildReflection(pr, opts) ==
    IF ~pr.linked THEN pr
    ELSE [pr EXCEPT !.reflection =
            [ built |-> TRUE,
              uniforms |-> IF "uniforms" \in opts
                           THEN Table(pr.uniforms) ELSE <<>>,
              blocks |-> IF "blocks" \in opts /\ pr.uniforms # {}
                         THEN Table({"Block"}) ELSE <<>>,
              attributes |-> IF "attributes" \in opts
                                /\ "EShLangVertex" \in pr.stages
                             THEN Table({"position"}) ELSE <<>> ]]

\* The counts of the reflection; without a reflection the read is undefined
NumLiveUniformVariables(pr) ==
    IF pr.reflection.built THEN {Len(pr.reflection.uniforms)} ELSE {-1, 0}
NumLiveUniformBlocks(pr) ==
    IF pr.reflection.built THEN {Len(pr.reflection.blocks)} ELSE {-1, 0}
NumLiveAttributes(pr) ==
    IF pr.reflection.built THEN {Len(pr.reflection.attributes)} ELSE {-1, 0}

\* The index of a name in a table (0-based), -1 when it is not there
IndexOf(table, name) ==
    IF \E i \in 1..Len(table) : table[i] = name
    THEN (CHOOSE i \in 1..Len(table) : table[i] = name) - 1
    ELSE -1

(***************************************************************************)
(* The LinkUnit functions of glue.cpp.                                     *)
(***************************************************************************)
NewProgram == CHOOSE p \in ProgramIds :
    /\ program[p].status = "free"
    /\ \A q \in ProgramIds : program[q].status = "free" => p <= q

TProgram_create ==
    /\ ~crashed
    /\ \E p \in ProgramIds : program[p].status = "free"
    /\ program' = [program EXCEPT ![NewProgram] = TProgram__new]
    /\ last' = [Call("TProgram_create", NewProgram) EXCEPT !.i = NewProgram]
    /\ UNCHANGED <<shader, handles, crashed>>

\* The caller attaches a unit it has not destroyed, once
TProgram_addShader(p, u) ==
    /\ ~crashed /\ LiveP(p) /\ Live(u)
    /\ u \notin program[p].shaders
    /\ program' = [program EXCEPT ![p] = TProgram__addShader(@, u)]
    /\ last' = Call("TProgram_addShader", p)
    /\ UNCHANGED <<shader, handles, crashed>>

\* A slip of the pen: the result of the link is dropped
TProgram_link_Unchecked(p, messages) ==
    /\ ~crashed /\ LiveP(p)
    /\ \E r \in LinkOutcomes(program[p]) :
        IF r = "crash"
        THEN /\ crashed' = TRUE
             /\ last' = Call("TProgram_link", p)
             /\ UNCHANGED <<shader, program, handles>>
        ELSE /\ program' = [program EXCEPT
                    ![p] = TProgram__link(@, r = "true", messages)]
             /\ last' = [Call("TProgram_link", p) EXCEPT !.b = TRUE]
             /\ UNCHANGED <<shader, handles, crashed>>

TProgram_link(p, messages) ==
    /\ ~crashed /\ LiveP(p)
    /\ \E r \in LinkOutcomes(program[p]) :
        IF r = "crash"
        THEN /\ crashed' = TRUE
             /\ last' = Call("TProgram_link", p)
             /\ UNCHANGED <<shader, program, handles>>
        ELSE /\ program' = [program EXCEPT
                    ![p] = TProgram__link(@, r = "true", messages)]
             /\ last' = [Call("TProgram_link", p) EXCEPT !.b = (r = "true")]
             /\ UNCHANGED <<shader, handles, crashed>>

TProgram_getInfoLog(p) ==
    /\ ~crashed /\ LiveP(p)
    /\ last' = [Call("TProgram_getInfoLog", p) EXCEPT
                    !.s = program[p].infoLog]
    /\ UNCHANGED <<shader, program, handles, crashed>>

TProgram_getInfoDebugLog(p) ==
    /\ ~crashed /\ LiveP(p)
    /\ last' = Call("TProgram_getInfoDebugLog", p)
    /\ UNCHANGED <<shader, program, handles, crashed>>

\* The linked intermediate of a stage: 1 stands for its address, 0 for null
TProgram_getIntermediate(p, stage) ==
    /\ ~crashed /\ LiveP(p)
    /\ last' = [Call("TProgram_getIntermediate", p) EXCEPT
                    !.i = IF program[p].linked /\ stage \in program[p].stages
                          THEN 1 ELSE 0]
    /\ UNCHANGED <<shader, program, handles, crashed>>

\* A slip of the pen: the result of buildReflection is dropped
TProgram_buildReflection_Unchecked(p, opts) ==
    /\ ~crashed /\ LiveP(p)
    /\ program' = [program EXCEPT ![p] = TProgram__buildReflection(@, opts)]
    /\ last' = [Call("TProgram_buildReflection", p) EXCEPT !.b = TRUE]
    /\ UNCHANGED <<shader, handles, crashed>>

TProgram_buildReflection(p, opts) ==
    /\ ~crashed /\ LiveP(p)
    /\ program' = [program EXCEPT ![p] = TProgram__buildReflection(@, opts)]
    /\ last' = [Call("TProgram_buildReflection", p) EXCEPT
                    !.b = program[p].linked]
    /\ UNCHANGED <<shader, handles, crashed>>

\* A count getter: the value read, or the crash of a read through no
\* reflection
CountGetter(op, p, values) ==
    /\ ~crashed /\ LiveP(p)
    /\ \/ /\ \E v \in values : last' = [Call(op, p) EXCEPT !.i = v]
          /\ UNCHANGED <<shader, program, handles, crashed>>
       \/ /\ ~program[p].reflection.built
          /\ crashed' = TRUE
          /\ last' = Call(op, p)
          /\ UNCHANGED <<shader, program, handles>>

TProgram_getNumLiveUniformVariables(p) ==
    CountGetter("TProgram_getNumLiveUniformVariables", p,
                NumLiveUniformVariables(program[p]))

TProgram_getNumLiveUniformBlocks(p) ==
    CountGetter("TProgram_getNumLiveUniformBlocks", p,
                NumLiveUniformBlocks(program[p]))

TProgram_getNumLiveAttributes(p) ==
    CountGetter("TProgram_getNumLiveAttributes", p,
                NumLiveAttributes(program[p]))

\* The by-name lookups; the caller asks them of a built reflection
TProgram_getPipeIOIndex(p, name, inOrOut) ==
    /\ ~crashed /\ LiveP(p) /\ program[p].reflection.built
    /\ last' = [Call("TProgram_getPipeIOIndex", p) EXCEPT
                    !.i = IF inOrOut
                          THEN IndexOf(program[p].reflection.attributes, name)
                          ELSE -1]
    /\ UNCHANGED <<shader, program, handles, crashed>>

TProgram_getUniformIndex(p, name) ==
    /\ ~crashed /\ LiveP(p) /\ program[p].reflection.built
    /\ last' = [Call("TProgram_getUniformIndex", p) EXCEPT
                    !.i = IndexOf(program[p].reflection.uniforms, name)]
    /\ UNCHANGED <<shader, program, handles, crashed>>

\* What the reflection tables say of their entries
Metadata ==
    [ u |-> [binding |-> 3, stages |-> 1, blockIndex |-> 0, type |-> 5126,
             bufferOffset |-> 0, arraySize |-> 1],
      Block |-> [size |-> 4, binding |-> 0, counterIndex |-> -1],
      position |-> [type |-> 35666] ]

\* A by-index accessor: the caller keeps the index inside [0, count) of the
\* table of a built reflection
NameGetter(op, p, table, index) ==
    /\ ~crashed /\ LiveP(p) /\ program[p].reflection.built
    /\ index \in 0..(Len(table) - 1)
    /\ last' = [Call(op, p) EXCEPT !.n = index, !.s = table[index + 1]]
    /\ UNCHANGED <<shader, program, handles, crashed>>

IntGetter(op, p, table, index, field) ==
    /\ ~crashed /\ LiveP(p) /\ program[p].reflection.built
    /\ index \in 0..(Len(table) - 1)
    /\ last' = [Call(op, p) EXCEPT
                    !.n = index, !.i = Metadata[table[index + 1]][field]]
    /\ UNCHANGED <<shader, program, handles, crashed>>

TProgram_getUniformName(p, index) ==
    NameGetter("TProgram_getUniformName", p,
               program[p].reflection.uniforms, index)

TProgram_getUniformBinding(p, index) ==
    IntGetter("TProgram_getUniformBinding", p,
              program[p].reflection.uniforms, index, "binding")

TProgram_getUniformStages(p, index) ==
    IntGetter("TProgram_getUniformStages", p,
              program[p].reflection.uniforms, index, "stages")

TProgram_getUniformBlockIndex(p, index) ==
    IntGetter("TProgram_getUniformBlockIndex", p,
              program[p].reflection.uniforms, index, "blockIndex")

TProgram_getUniformType(p, index) ==
    IntGetter("TProgram_getUniformType", p,
              program[p].reflection.uniforms, index, "type")

TProgram_getUniformBufferOffset(p, index) ==
    IntGetter("TProgram_getUniformBufferOffset", p,
              program[p].reflection.uniforms, index, "bufferOffset")

TProgram_getUniformArraySize(p, index) ==
    IntGetter("TProgram_getUniformArraySize", p,
              program[p].reflection.uniforms, index, "arraySize")

TProgram_getUniformBlockName(p, index) ==
    NameGetter("TProgram_getUniformBlockName", p,
               program[p].reflection.blocks, index)

TProgram_getUniformBlockSize(p, index) ==
    IntGetter("TProgram_getUniformBlockSize", p,
              program[p].reflection.blocks, index, "size")

TProgram_getUniformBlockBinding(p, index) ==
    IntGetter("TProgram_getUniformBlockBinding", p,
              program[p].reflection.blocks, index, "binding")

TProgram_getUniformBlockCounterIndex(p, index) ==
    IntGetter("TProgram_getUniformBlockCounterIndex", p,
              program[p].reflection.blocks, index, "counterIndex")

TProgram_getAttributeName(p, index) ==
    NameGetter("TProgram_getAttributeName", p,
               program[p].reflection.attributes, index)

TProgram_getAttributeType(p, index) ==
    IntGetter("TProgram_getAttributeType", p,
              program[p].reflection.attributes, index, "type")

\* A slip of the pen: the report is made over a reflection built for it
TProgram_dumpReflection_Rebuilds(p) ==
    /\ ~crashed /\ LiveP(p) /\ program[p].reflection.built
    /\ program' = [program EXCEPT ![p] =
            TProgram__buildReflection(@, {"uniforms", "blocks", "attributes"})]
    /\ last' = Call("TProgram_dumpReflection", p)
    /\ UNCHANGED <<shader, handles, crashed>>

\* Writes the report to the compiler's diagnostic sink: nothing of the
\* boundary's state changes
TProgram_dumpReflection(p) ==
    /\ ~crashed /\ LiveP(p) /\ program[p].reflection.built
    /\ last' = Call("TProgram_dumpReflection", p)
    /\ UNCHANGED <<shader, program, handles, crashed>>

\* A slip of the pen: the program takes the units it refers to with it
TProgram_destroy_Owning(p) ==
    /\ ~crashed /\ LiveP(p)
    /\ program' = [program EXCEPT ![p] = TProgram__delete(@)]
    /\ shader' = [u \in ShaderIds |->
            IF u \in program[p].shaders /\ Live(u)
            THEN TShader__delete(shader[u]) ELSE shader[u]]
    /\ crashed' = (\E u \in program[p].shaders : ~Live(u))
    /\ last' = Call("TProgram_destroy", p)
    /\ UNCHANGED handles

TProgram_destroy(p) ==
    /\ ~crashed /\ LiveP(p)
    /\ program' = [program EXCEPT ![p] = TProgram__delete(@)]
    /\ last' = Call("TProgram_destroy", p)
    /\ UNCHANGED <<shader, handles, crashed>>

(***************************************************************************)
(* The boundary as a state machine: the caller calls any function on any   *)
(* handle it has not destroyed.                                            *)
(***************************************************************************)
Init ==
    /\ shader = [u \in ShaderIds |-> FreeShader]
    /\ program = [p \in ProgramIds |-> FreeProgram]
    /\ handles = {}
    /\ last = Call("", 0)
    /\ crashed = FALSE

Indices == 0..0
LookupNames == {"u", "position", "absent"}

SetSource ==
    \E u \in ShaderIds, s \in StringPtrs, n \in Counts :
        \/ TShader_setStrings(u, s, n)
        \/ \E l \in LengthPtrs : TShader_setStringsWithLengths(u, s, l, n)
        \/ \E l \in LengthPtrs, names \in NamePtrs :
            TShader_setStringsWithLengthsAndNames(u, s, l, names, n)

Configure ==
    \E u \in ShaderIds :
        \/ \E v \in SetterArgs("setPreamble") : TShader_setPreamble(u, v)
        \/ \E v \in SetterArgs("setEntryPoint") : TShader_setEntryPoint(u, v)
        \/ \E v \in SetterArgs("setSourceEntryPoint") :
            TShader_setSourceEntryPoint(u, v)
        \/ \E v \in SetterArgs("setUniqueId") : TShader_setUniqueId(u, v)
        \/ \E v \in SetterArgs("setShiftBinding") :
            TShader_setShiftBinding(u, v)
        \/ \E v \in SetterArgs("setShiftBindingForSet") :
            TShader_setShiftBindingForSet(u, v)
        \/ \E v \in SetterArgs("setAutoMapBindings") :
            TShader_setAutoMapBindings(u, v)
        \/ \E v \in SetterArgs("setAutoMapLocations") :
            TShader_setAutoMapLocations(u, v)
        \/ \E v \in SetterArgs("addUniformLocationOverride") :
            TShader_addUniformLocationOverride(u, v)
        \/ \E v \in SetterArgs("setUniformLocationBase") :
            TShader_setUniformLocationBase(u, v)
        \/ \E v \in SetterArgs("setInvertY") : TShader_setInvertY(u, v)
        \/ \E v \in SetterArgs("setNoStorageFormat") :
            TShader_setNoStorageFormat(u, v)
        \/ \E v \in SetterArgs("setNanMinMaxClamp") :
            TShader_setNanMinMaxClamp(u, v)
        \/ \E v \in SetterArgs("setTextureSamplerTransformMode") :
            TShader_setTextureSamplerTransformMode(u, v)
        \/ \E v \in SetterArgs("addBlockStorageOverride") :
            TShader_addBlockStorageOverride(u, v)
        \/ \E v \in SetterArgs("setGlobalUniformBlockName") :
            TShader_setGlobalUniformBlockName(u, v)
        \/ \E v \in SetterArgs("setAtomicCounterBlockName") :
            TShader_setAtomicCounterBlockName(u, v)
        \/ \E v \in SetterArgs("setGlobalUniformSet") :
            TShader_setGlobalUniformSet(u, v)
        \/ \E v \in SetterArgs("setGlobalUniformBinding") :
            TShader_setGlobalUniformBinding(u, v)
        \/ \E v \in SetterArgs("setAtomicCounterBlockSet") :
            TShader_setAtomicCounterBlockSet(u, v)
        \/ \E v \in SetterArgs("setAtomicCounterBlockBinding") :
            TShader_setAtomicCounterBlockBinding(u, v)
        \/ \E v \in SetterArgs("setEnvInput") : TShader_setEnvInput(u, v)
        \/ \E v \in SetterArgs("setEnvClient") : TShader_setEnvClient(u, v)
        \/ \E v \in SetterArgs("setEnvTarget") : TShader_setEnvTarget(u, v)
        \/ TShader_setEnvInputVulkanRulesRelaxed(u)

Parse ==
    \E u \in ShaderIds, defaultVersion \in Versions,
       forwardCompatible \in BOOLEAN, messages \in Messages :
        \/ \E defaultProfile \in Profiles, force \in BOOLEAN :
            TShader_parse(u, defaultVersion, defaultProfile, force,
                          forwardCompatible, messages)
        \/ TShader_parse1(u, defaultVersion, forwardCompatible, messages)

ShaderQuery ==
    \E u \in ShaderIds :
        \/ TShader_getStrings(u)
        \/ TShader_getEnvTargetHlslFunctionality1(u)
        \/ TShader_getEnvInputVulkanRulesRelaxed(u)
        \/ TShader_getInfoLog(u)
        \/ TShader_getInfoDebugLog(u)
        \/ TShader_getStage(u)
        \/ TShader_getIntermediate(u)

ShaderLife ==
    \/ \E lang \in Stages : TShader_create(lang)
    \/ \E u \in ShaderIds : TShader_destroy(u)

ProgramLife ==
    \/ TProgram_create
    \/ \E p \in ProgramIds, u \in ShaderIds : TProgram_addShader(p, u)
    \/ \E p \in ProgramIds, messages \in Messages : TProgram_link(p, messages)
    \/ \E p \in ProgramIds, opts \in ReflectionOptions :
        TProgram_buildReflection(p, opts)
    \/ \E p \in ProgramIds : TProgram_destroy(p)

ProgramQuery ==
    \E p \in ProgramIds :
        \/ TProgram_getInfoLog(p)
        \/ TProgram_getInfoDebugLog(p)
        \/ \E stage \in Stages : TProgram_getIntermediate(p, stage)
        \/ \E name \in LookupNames, inOrOut \in BOOLEAN :
            TProgram_getPipeIOIndex(p, name, inOrOut)
        \/ TProgram_getNumLiveUniformVariables(p)
        \/ TProgram_getNumLiveUniformBlocks(p)
        \/ TProgram_getNumLiveAttributes(p)
        \/ \E name \in LookupNames : TProgram_getUniformIndex(p, name)
        \/ \E index \in Indices :
            \/ TProgram_getUniformName(p, index)
            \/ TProgram_getUniformBinding(p, index)
            \/ TProgram_getUniformStages(p, index)
            \/ TProgram_getUniformBlockIndex(p, index)
            \/ TProgram_getUniformType(p, index)
            \/ TProgram_getUniformBufferOffset(p, index)
            \/ TProgram_getUniformArraySize(p, index)
            \/ TProgram_getUniformBlockName(p, index)
            \/ TProgram_getUniformBlockSize(p, index)
            \/ TProgram_getUniformBlockBinding(p, index)
            \/ TProgram_getUniformBlockCounterIndex(p, index)
            \/ TProgram_getAttributeName(p, index)
            \/ TProgram_getAttributeType(p, index)
        \/ TProgram_dumpReflection(p)

\* Every function of the boundary
Next ==
    \/ ShaderLife \/ SetSource \/ Configure \/ Parse \/ ShaderQuery
    \/ ProgramLife \/ ProgramQuery

Spec == Init /\ [][Next]_vars

(***************************************************************************)
(* The same state machine, one surface at a time and with fewer inputs, so *)
(* that every state of it can be visited.                                  *)
(***************************************************************************)
Allocated == {u \in ShaderIds : shader[u].status # "free"}

\* Source and parse of a CompilationUnit: every form of "set source", both
\* arities of parse with every argument, the source and log queries
NextSource ==
    \/ /\ Cardinality(Allocated) < MaxSourceUnits
       /\ TShader_create("EShLangVertex")
    \/ \E u \in ShaderIds : TShader_destroy(u)
    \/ SetSource
    \/ \E u \in ShaderIds, v \in SetterArgs("setEnvInput") :
        TShader_setEnvInput(u, v)
    \/ \E u \in ShaderIds, defaultVersion \in Versions,
          forwardCompatible \in BOOLEAN :
        \/ \E defaultProfile \in Profiles, force \in BOOLEAN :
            TShader_parse(u, defaultVersion, defaultProfile, force,
                          forwardCompatible, "EShMsgDebugInfo")
        \/ \E messages \in Messages :
            TShader_parse1(u, defaultVersion, forwardCompatible, messages)
    \/ \E u \in ShaderIds :
        \/ TShader_getStrings(u)
        \/ TShader_getInfoLog(u)
        \/ TShader_getInfoDebugLog(u)
        \/ TShader_getStage(u)
        \/ TShader_getEnvTargetHlslFunctionality1(u)
        \/ TShader_getEnvInputVulkanRulesRelaxed(u)
        \/ TShader_getIntermediate(u)

SpecSource == Init /\ [][NextSource]_vars

\* Configuration of CompilationUnits next to other units and a program
NextConfig ==
    \/ TShader_create("EShLangFragment")
    \/ \E u \in ShaderIds : TShader_destroy(u)
    \/ \E u \in ShaderIds, s \in {1, 3} : TShader_setStrings(u, s, 2)
    \/ /\ ConfiguredFields < MaxConfigured
       /\ Configure
    \/ \E u \in ShaderIds : TShader_parse1(u, 450, FALSE, "EShMsgDebugInfo")
    \/ TProgram_create
    \/ \E p \in ProgramIds, u \in ShaderIds : TProgram_addShader(p, u)
    \/ \E p \in ProgramIds : TProgram_destroy(p)

SpecConfig == Init /\ [][NextConfig]_vars

\* The LinkUnit surface, with what it needs of the units
NextProgram ==
    \/ ShaderLife
    \/ \E u \in ShaderIds, s \in {1, 2} : TShader_setStrings(u, s, 2)
    \/ \E u \in ShaderIds : TShader_parse1(u, 450, FALSE, "EShMsgDefault")
    \/ ProgramLife
    \/ ProgramQuery

SpecProgram == Init /\ [][NextProgram]_vars

(***************************************************************************)
(* Properties of the boundary.                                             *)
(***************************************************************************)
SourceOps ==
    { "TShader_setStrings", "TShader_setStringsWithLengths",
      "TShader_setStringsWithLengthsAndNames" }
SetterOps == {"TShader_" \o f : f \in Setters}
ParseOps == {"TShader_parse", "TShader_parse1"}
CountOps ==
    { "TProgram_getNumLiveUniformVariables",
      "TProgram_getNumLiveUniformBlocks", "TProgram_getNumLiveAttributes" }

\* The profile and the forcing a parse call ran with
ProfileOf(call) ==
    IF call.op = "TShader_parse" THEN call.args.defaultProfile
    ELSE "ENoProfile"
ForceOf(call) == call.op = "TShader_parse" /\ call.args.force

\* C1: the set of live CompilationUnits changes only in TShader_create and
\* TShader_destroy; TProgram_destroy leaves every unit as it was, the units
\* attached to the program included, and does not crash, whether or not an
\* attached unit was destroyed before.
C1_ProgramDestroyOwnsNoUnit ==
    [][ /\ last'.op \notin {"TShader_create", "TShader_destroy"}
            => LiveUnits' = LiveUnits
        /\ last'.op = "TProgram_destroy"
            => shader' = shader /\ handles' = handles /\ ~crashed' ]_vars

\* C1 happens: a program was destroyed that referred to a unit destroyed
\* before it and to a unit that is still live
C1_Witness ==
    /\ last.op = "TProgram_destroy"
    /\ \E u, v \in program[last.self].shaders :
        Live(u) /\ shader[v].status = "dead"

\* C2: TProgram_buildReflection returns true exactly when a TProgram_link of
\* that program has returned true before; when it has returned true the three
\* counts are >= 0, as read right away and as the count getters return them.
C2_ReflectionAfterLink ==
    /\ last.op = "TProgram_buildReflection" =>
        LET pr == program[last.self]
        IN  /\ last.b <=> pr.linked
            /\ last.b => /\ pr.reflection.built
                         /\ \A c \in NumLiveUniformVariables(pr)
                                 \cup NumLiveUniformBlocks(pr)
                                 \cup NumLiveAttributes(pr) : c >= 0
    /\ last.op = "TProgram_link" /\ last.b => program[last.self].linked
    /\ (last.op \in CountOps /\ ~crashed
            /\ program[last.self].reflection.built) => last.i >= 0

\* C2 happens: buildReflection has returned true and found a live attribute
C2_Witness ==
    /\ last.op = "TProgram_buildReflection" /\ last.b
    /\ NumLiveAttributes(program[last.self]) = {1}

\* C3: a link of a program to which no unit was attached returns false,
\* whatever the message flags.
C3_EmptyLinkFails ==
    (last.op = "TProgram_link" /\ program[last.self].shaders = {})
        => ~last.b /\ ~crashed

\* C3 happens: an empty program was linked
C3_Witness == last.op = "TProgram_link" /\ program[last.self].shaders = {}

\* C4: a parse of a source that is invalid under the configuration of the call
\* returns false and leaves a non-empty info log, which TShader_getInfoLog then
\* returns; nothing but the return value signals it; and the logs are those of
\* this parse whether it succeeded or failed.
C4_ParseFailureByValue ==
    /\ last.op \in ParseOps =>
        LET sh == shader[last.self]
            valid == SourceValid(sh, last.args.defaultVersion,
                                 ProfileOf(last), ForceOf(last))
        IN  /\ ~crashed
            /\ ~valid => ~last.b /\ sh.infoLog # ""
            /\ valid => last.b /\ sh.infoLog = ""
            /\ sh.debugLog # "" <=> last.args.messages = "EShMsgDebugInfo"
    /\ last.op = "TShader_getInfoLog" =>
        /\ last.s = shader[last.self].infoLog
        /\ shader[last.self].parsed = "fail" => last.s # ""

\* C4 happens: the info log of a unit whose parse failed was read, and the
\* debug log of that parse is not empty
C4_Witness ==
    /\ last.op = "TShader_getInfoLog"
    /\ shader[last.self].parsed = "fail"
    /\ shader[last.self].debugLog # ""

\* C5: each of the three "set source" calls replaces the whole source (array,
\* count, lengths, names; what the call does not give is reset), and
\* TShader_getStrings writes the array and the count of the last of them.
C5_LastSourceWins ==
    [][ /\ last'.op \in SourceOps =>
            LET sh == shader'[last'.self]
            IN  /\ sh.strings = last'.args.s
                /\ sh.numStrings = last'.args.n
                /\ sh.lengths = last'.args.l
                /\ sh.stringNames = last'.args.names
        /\ last'.op = "TShader_getStrings" =>
            /\ last'.i = shader[last'.self].strings
            /\ last'.n = shader[last'.self].numStrings
            /\ shader' = shader ]_vars

\* C5 happens: getStrings has returned the second array with count 1, set by
\* a call that gave no names, on a unit that ran with lengths
C5_Witness ==
    /\ last.op = "TShader_getStrings"
    /\ last.i = 2 /\ last.n = 1
    /\ shader[last.self].lengths # 0
    /\ shader[last.self].stringNames = 0

\* What TShader_parse leaves of a unit and returns
ParseOutcome(sh, defaultVersion, defaultProfile, force, forwardCompatible, messages) ==
    LET after == TShader__parse(sh, defaultVersion, defaultProfile, force,
                                forwardCompatible, messages)
    IN  [unit |-> after, result |-> (after.parsed = "ok")]

C7_HandleValidWhileUnitLives ==
    [][ \A u \in ShaderIds :
        /\ (u \in handles' /\ shader'[u].ir.state = "populated")
            => shader'[u].status = "live"
        /\ (shader[u].ir.state # "populated"
                /\ shader'[u].ir.state = "populated")
            => last'.op \in ParseOps /\ last'.self = u /\ last'.b
        /\ (last'.op = "TShader_destroy" /\ last'.self = u)
            => shader'[u].ir.state = "none" ]_vars

\* C7 happens: a unit was destroyed whose handle the caller holds
C7_Witness == last.op = "TShader_destroy" /\ last.self \in handles

\* The steps that replace the reflection of program p, as C8 is written and
\* as amended
IsLink(p) == last'.op = "TProgram_link" /\ last'.self = p
IsBuild(p) == last'.op = "TProgram_buildReflection" /\ last'.self = p

\* C8 as amended: the reflection built by a successful buildReflection stays
\* as it is, and the accessors read it, until the next TProgram_link or
\* TProgram_buildReflection of that program; a link leaves the program
\* without reflection, and a reflection appears only in a buildReflection
\* that returns true.
C8_SnapshotUntilLinkOrRebuild ==
    [][ \A p \in ProgramIds :
        /\ (program[p].reflection.built /\ LiveP(p)' /\ ~IsLink(p)
                /\ ~IsBuild(p))
            => program'[p].reflection = program[p].reflection
        /\ (IsLink(p) /\ ~crashed') => ~program'[p].reflection.built
        /\ (~program[p].reflection.built /\ program'[p].reflection.built)
            => IsBuild(p) /\ last'.b
        /\ (last'.op = "TProgram_getUniformName" /\ last'.self = p)
            => last'.s = program[p].reflection.uniforms[last'.n + 1]
        /\ (last'.op = "TProgram_getUniformBlockName" /\ last'.self = p)
            => last'.s = program[p].reflection.blocks[last'.n + 1]
        /\ (last'.op = "TProgram_getAttributeName" /\ last'.self = p)
            => last'.s = program[p].reflection.attributes[last'.n + 1] ]_vars

\* The program was linked as the boundary asks: from live, parsed units
Defined(p) ==
    \A u \in program[p].shaders : Live(u) /\ shader[u].ir.state = "populated"

\* C8 as written: the reflection stays as it is until the next TProgram_link
\* (here for the programs whose link was defined)
C8_SnapshotUntilLink ==
    [][ \A p \in ProgramIds :
        (program[p].reflection.built /\ Defined(p) /\ LiveP(p)'
                /\ ~IsLink(p))
            => program'[p].reflection = program[p].reflection ]_vars

\* C8 happens: a uniform name was read by index from a built reflection
C8_Witness ==
    /\ last.op = "TProgram_getUniformName" /\ last.s = "u"
    /\ program[last.self].reflection.built

\* C10: a configuration setter or a "set source" call returns nothing and
\* changes nothing but the configuration (the source) of its unit: not the
\* last parse result, the logs or the intermediate representation of the unit,
\* no other unit, no program; the next parse then answers for the
\* configuration it finds.
C10_SettersOnlyConfigure ==
    [][ /\ last'.op \in SetterOps \cup SourceOps =>
            LET u == last'.self
            IN  /\ \A v \in ShaderIds \ {u} : shader'[v] = shader[v]
                /\ program' = program /\ handles' = handles /\ ~crashed'
                /\ shader'[u].status = shader[u].status
                /\ shader'[u].stage = shader[u].stage
                /\ shader'[u].parsed = shader[u].parsed
                /\ shader'[u].infoLog = shader[u].infoLog
                /\ shader'[u].debugLog = shader[u].debugLog
                /\ shader'[u].ir = shader[u].ir
                /\ ~last'.b /\ last'.i = 0 /\ last'.s = ""
        /\ last'.op \in ParseOps =>
            (last'.b <=> SourceValid(shader[last'.self],
                                     last'.args.defaultVersion,
                                     ProfileOf(last'), ForceOf(last'))) ]_vars

\* C10 happens: a unit that had parsed was given a target environment the
\* compiler rejects, next to another unit and a program
C10_Witness ==
    /\ last.op = "TShader_setEnvTarget"
    /\ shader[last.self].config["setEnvTarget"] = 2
    /\ shader[last.self].parsed = "ok"
    /\ \E v \in ShaderIds \ {last.self} : Live(v)
    /\ \E p \in ProgramIds : LiveP(p) /\ program[p].shaders # {}

====
